---- MODULE Spec2Model ----
(***************************************************************************)
(* Model of src/Retirement.py: the month-by-month projection loop of       *)
(* simulate_retirement, followed by the depletion scan (failure_month) and *)
(* the yearly groupby table.                                               *)
(*                                                                         *)
(* Money is modelled by integers (whole currency units), for which the     *)
(* float arithmetic of the program is exact.  The rates are arguments of   *)
(* simulate_retirement, which takes any float: net annual rates are drawn  *)
(* from 0 and 2^12 - 1, whose effective monthly rates (0 and 1) the        *)
(* program computes exactly: (1.0 + 4095.0) ** (1.0/12.0) - 1.0 = 1.0.     *)
(* The percentages the sidebar sliders can pass (at most 0.20, 0.05 and    *)
(* 0.15) give monthly rates that are not whole, except the net rate 0.     *)
(* None (no failure month) is written 0; months are numbered from 1.       *)
(* The column Balance_Real_Today (bal / infl_index) is not an integer and  *)
(* is left out; no property below reads it.                                *)
(***************************************************************************)
EXTENDS Integers, Sequences, FiniteSets

VARIABLES params, r_m, inf_m, m, bal, rows, pc, failure_month, end_nom,
          show_yearly, yearly

vars == <<params, r_m, inf_m, m, bal, rows, pc, failure_month, end_nom,
          show_yearly, yearly>>

----------------------------------------------------------------------------
(* Bounds of the model and the values its inputs are drawn from *)

MaxYearsTill == 1

\* Money inputs
Amounts == {0, 100}

\* years_in_retirement
YearsInRetirement == {1}

\* Arguments <<yield_annual, fee_annual>> of simulate_retirement: net annual
\* rates 0 and 2^12 - 1, the second with a fee to subtract
YieldFee == {<<0, 0>>, <<8190, 4095>>}

\* years_till_retirement of the runs with a nonzero net return: at the monthly
\* return 1 the balance doubles every month, and the 12 months of a run that
\* starts in retirement keep it far below 2^31
GrowthYearsTill == {0}

\* Arguments <<inflation_annual, inflate_withdrawals_post>> of
\* simulate_retirement; with inflation 0 the flag scales by 1 and is left off
InflationFlag == {<<0, FALSE>>, <<4095, FALSE>>, <<4095, TRUE>>}

\* Month of the one-time withdrawal relative to that of the one-time
\* contribution, when both are set
TargetOffsets == {-1, 0, 1}

----------------------------------------------------------------------------
(* Pure helpers *)

RECURSIVE Pow(_, _)
Pow(b, e) == IF e = 0 THEN 1 ELSE b * Pow(b, e - 1)

RECURSIVE Root12From(_, _)
Root12From(x, r) == IF Pow(r + 1, 12) > x THEN r ELSE Root12From(x, r + 1)

\* (1.0 + rate_annual) ** (1.0 / 12.0) - 1.0, on rates whose 12th root is whole
annual_to_monthly(rate_annual) == Root12From(1 + rate_annual, 0) - 1

months_pre(p) == p.years_till_retirement * 12
months_post(p) == p.years_in_retirement * 12
total_months(p) == months_pre(p) + months_post(p)

\* Variant: range(1, total_months), the last month is never simulated
LoopContinuesShort(p, mm) == mm < total_months(p)

\* for m in range(1, total_months + 1)
LoopContinues(p, mm) == mm <= total_months(p)

phase(p, mm) == IF mm <= months_pre(p) THEN "Pre-retirement" ELSE "Retirement"

\* Variant: the income is not zeroed after retirement
incomeAlways(p, mm) == p.monthly_income

\* Variant: the contribution is not zeroed after retirement
contribAlways(p, mm) == p.monthly_contribution

income(p, mm) == IF mm <= months_pre(p) THEN p.monthly_income ELSE 0
contrib(p, mm) == IF mm <= months_pre(p) THEN p.monthly_contribution ELSE 0

\* Variant: the post-retirement withdrawal is taken in both phases
withdrawPostOnly(p, mm, im) ==
    IF mm > months_pre(p) /\ p.inflate_withdrawals_post
    THEN p.monthly_withdraw_post * Pow(1 + im, (mm - months_pre(p)) - 1)
    ELSE p.monthly_withdraw_post

withdraw(p, mm, im) ==
    IF phase(p, mm) = "Retirement" /\ p.inflate_withdrawals_post
    THEN p.monthly_withdraw_post * Pow(1 + im, (mm - months_pre(p)) - 1)
    ELSE IF mm <= months_pre(p) THEN p.monthly_withdraw_pre
                                ELSE p.monthly_withdraw_post

\* Variant: the one-time contribution is applied from its month onwards
ot_contribFrom(p, mm) ==
    IF mm >= p.one_time_contribution_month THEN p.one_time_contribution ELSE 0

ot_contrib(p, mm) ==
    IF mm = p.one_time_contribution_month THEN p.one_time_contribution ELSE 0
ot_withdraw(p, mm) ==
    IF mm = p.one_time_withdrawal_month THEN p.one_time_withdrawal ELSE 0

net_in(p, mm) == income(p, mm) + contrib(p, mm) + ot_contrib(p, mm)
net_out(p, mm, im) == withdraw(p, mm, im) + ot_withdraw(p, mm)

\* Variant: the cashflows are netted before the return is applied
ApplyCashflowThenReturn(b, r, nin, nout) == (b + nin - nout) * (1 + r)

\* bal = bal * (1.0 + r_m); bal = bal + net_in - net_out
ApplyReturnThenCashflow(b, r, nin, nout) == (b * (1 + r)) + nin - nout

\* Variant: a balance of exactly zero counts as depleted
went_negativeOrZero(b) == b <= 0

went_negative(b) == b < 0

\* Variant: the year is taken from m instead of m - 1
YearOfShifted(mm) == (mm \div 12) + 1

YearOf(mm) == ((mm - 1) \div 12) + 1

\* The record appended for month mm when the running balance is b, with
\* monthly return rm and monthly inflation im
MakeRow(p, mm, b, rm, im) ==
    LET pre == ApplyReturnThenCashflow(b, rm, net_in(p, mm), net_out(p, mm, im))
        neg == went_negative(pre)
    IN [Month |-> mm,
        Year |-> YearOf(mm),
        Phase |-> phase(p, mm),
        Balance_Nominal |-> IF neg THEN 0 ELSE pre,
        Return_Monthly |-> rm,
        Inflation_Monthly |-> im,
        Income |-> income(p, mm),
        Contribution |-> contrib(p, mm),
        Withdrawal |-> withdraw(p, mm, im),
        OneTime_Contribution |-> ot_contrib(p, mm),
        OneTime_Withdrawal |-> ot_withdraw(p, mm),
        Net_Cashflow |-> net_in(p, mm) - net_out(p, mm, im),
        Balance_Before |-> b,
        Went_Negative |-> neg]

----------------------------------------------------------------------------
(* Depletion scan *)

RECURSIVE FirstNegFrom(_, _)
FirstNegFrom(rs, i) ==
    IF i > Len(rs) THEN 0
    ELSE IF rs[i].Went_Negative THEN rs[i].Month
    ELSE FirstNegFrom(rs, i + 1)

RECURSIVE LastNegFrom(_, _)
LastNegFrom(rs, i) ==
    IF i < 1 THEN 0
    ELSE IF rs[i].Went_Negative THEN rs[i].Month
    ELSE LastNegFrom(rs, i - 1)

\* Variant: iloc[-1], the last month that went negative
FailureMonthLast(rs) == LastNegFrom(rs, Len(rs))

\* failure_rows["Month"].iloc[0] if not failure_rows.empty else None (None is 0)
FailureMonth(rs) == FirstNegFrom(rs, 1)

----------------------------------------------------------------------------
(* Yearly table: df.groupby(["Year", "Phase"], as_index=False).agg(...) *)

PhaseRank(ph) == IF ph = "Pre-retirement" THEN 0 ELSE 1

GroupKeys(rs) == {<<rs[i].Year, rs[i].Phase>> : i \in 1..Len(rs)}

KeyLess(a, b) == a[1] < b[1] \/ (a[1] = b[1] /\ PhaseRank(a[2]) < PhaseRank(b[2]))

RECURSIVE SortKeys(_)
SortKeys(S) ==
    IF S = {} THEN <<>>
    ELSE LET k == CHOOSE x \in S : \A y \in S \ {x} : KeyLess(x, y)
         IN <<k>> \o SortKeys(S \ {k})

GroupIdx(rs, k) == {i \in 1..Len(rs) : rs[i].Year = k[1] /\ rs[i].Phase = k[2]}

RECURSIVE SumIdx(_, _, _)
SumIdx(rs, I, f) ==
    IF I = {} THEN 0
    ELSE LET i == CHOOSE x \in I : TRUE
         IN rs[i][f] + SumIdx(rs, I \ {i}, f)

MaxOf(I) == CHOOSE x \in I : \A y \in I : y <= x

YearlyRow(rs, k) ==
    LET I == GroupIdx(rs, k)
    IN [Year |-> k[1],
        Phase |-> k[2],
        Income |-> SumIdx(rs, I, "Income"),
        Contribution |-> SumIdx(rs, I, "Contribution"),
        Withdrawal |-> SumIdx(rs, I, "Withdrawal"),
        OneTime_Contribution |-> SumIdx(rs, I, "OneTime_Contribution"),
        OneTime_Withdrawal |-> SumIdx(rs, I, "OneTime_Withdrawal"),
        Ending_Balance_Nominal |-> rs[MaxOf(I)].Balance_Nominal]

Yearly(rs) ==
    LET ks == SortKeys(GroupKeys(rs))
    IN [j \in 1..Len(ks) |-> YearlyRow(rs, ks[j])]

----------------------------------------------------------------------------
(* State machine *)

\* Target months offered for a one-time event: every month of the horizon and
\* one month on either side of it.  An event with amount 0 is unset and keeps
\* the default month 1.
OneTimeMonths(total, amount) == IF amount = 0 THEN {1} ELSE 0..(total + 1)

\* Two events that are both set lie in the same month or in adjacent months.
WithinGap(otc, otcm, otw, otwm) ==
    (otc # 0 /\ otw # 0) => (otwm - otcm \in TargetOffsets)

\* A nonzero net return is run on the horizons of GrowthYearsTill only
GrowthHorizon(yf, ytr) == (yf[1] # yf[2]) => (ytr \in GrowthYearsTill)

Init ==
    /\ \E ob \in Amounts, ytr \in 0..MaxYearsTill, yir \in YearsInRetirement,
          mi \in Amounts, mc \in Amounts, wpre \in Amounts, wpost \in Amounts,
          yf \in YieldFee, fl \in InflationFlag,
          otc \in Amounts, otw \in Amounts :
        \E otcm \in OneTimeMonths((ytr + yir) * 12, otc),
              otwm \in OneTimeMonths((ytr + yir) * 12, otw) :
              /\ WithinGap(otc, otcm, otw, otwm)
              /\ GrowthHorizon(yf, ytr)
              /\ params = [opening_balance |-> ob,
                           years_till_retirement |-> ytr,
                           years_in_retirement |-> yir,
                           monthly_income |-> mi,
                           monthly_contribution |-> mc,
                           monthly_withdraw_pre |-> wpre,
                           monthly_withdraw_post |-> wpost,
                           inflation_annual |-> fl[1],
                           yield_annual |-> yf[1],
                           fee_annual |-> yf[2],
                           inflate_withdrawals_post |-> fl[2],
                           one_time_contribution |-> otc,
                           one_time_contribution_month |-> otcm,
                           one_time_withdrawal |-> otw,
                           one_time_withdrawal_month |-> otwm]
    /\ r_m = annual_to_monthly(params.yield_annual - params.fee_annual)
    /\ inf_m = annual_to_monthly(params.inflation_annual)
    /\ m = 1
    /\ bal = params.opening_balance
    /\ rows = <<>>
    /\ pc = "loop"
    /\ failure_month = 0
    /\ end_nom = 0
    /\ show_yearly = FALSE
    /\ yearly = <<>>

\* One iteration of the for loop of simulate_retirement
LoopBody ==
    /\ pc = "loop"
    /\ LoopContinues(params, m)
    /\ LET row == MakeRow(params, m, bal, r_m, inf_m)
       IN /\ rows' = Append(rows, row)
          /\ bal' = row.Balance_Nominal
    /\ m' = m + 1
    /\ UNCHANGED <<params, r_m, inf_m, pc, failure_month, end_nom, show_yearly, yearly>>

\* The loop is exhausted: return pd.DataFrame(rows)
LoopExit ==
    /\ pc = "loop"
    /\ ~LoopContinues(params, m)
    /\ pc' = "scan"
    /\ UNCHANGED <<params, r_m, inf_m, m, bal, rows, failure_month, end_nom, show_yearly, yearly>>

\* end_nom and failure_month are read off the returned frame
Scan ==
    /\ pc = "scan"
    /\ end_nom' = rows[Len(rows)].Balance_Nominal
    /\ failure_month' = FailureMonth(rows)
    /\ pc' = "table"
    /\ UNCHANGED <<params, r_m, inf_m, m, bal, rows, show_yearly, yearly>>

\* The table section: the yearly groupby when the toggle is on
Table ==
    /\ pc = "table"
    /\ \E t \in BOOLEAN :
        /\ show_yearly' = t
        /\ yearly' = IF t THEN Yearly(rows) ELSE <<>>
    /\ pc' = "done"
    /\ UNCHANGED <<params, r_m, inf_m, m, bal, rows, failure_month, end_nom>>

Next == LoopBody \/ LoopExit \/ Scan \/ Table

Spec == Init /\ [][Next]_vars

----------------------------------------------------------------------------
(* Properties *)

AccMonths == 12 * params.years_till_retirement
DistMonths == 12 * params.years_in_retirement
TotalPeriods == AccMonths + DistMonths
Returned == pc \in {"scan", "table", "done"}
Scanned == pc \in {"table", "done"}
LastRow == rows[Len(rows)]

RowInflow(r) == r.Income + r.Contribution + r.OneTime_Contribution
RowOutflow(r) == r.Withdrawal + r.OneTime_Withdrawal
RowPreFloor(r) == (r.Balance_Before * (1 + r.Return_Monthly)) + RowInflow(r) - RowOutflow(r)

RECURSIVE SumRange(_, _, _, _)
SumRange(rs, lo, hi, f) == IF lo > hi THEN 0 ELSE rs[lo][f] + SumRange(rs, lo + 1, hi, f)

WentNegativeMonths == {i \in 1..Len(rows) : rows[i].Went_Negative}

\* C1: the frame simulate_retirement returns has exactly accumulation_periods
\* + distribution_periods records, and its i-th record carries period index i.
C1_RecordCount ==
    Returned =>
        /\ Len(rows) = TotalPeriods
        /\ \A i \in 1..Len(rows) : rows[i].Month = i

C1_Witness == pc = "done" /\ AccMonths = 12 /\ Len(rows) = 24

\* C2: in every record of the returned frame the reported balance is >= 0; a
\* period is flagged Went_Negative with reported balance 0 exactly when its
\* pre-floor balance is strictly negative, and otherwise reports the pre-floor
\* balance unflagged.
C2_FloorAtZero ==
    Returned =>
        \A i \in 1..Len(rows) :
            LET r == rows[i]
                pre == RowPreFloor(r)
            IN /\ r.Balance_Nominal >= 0
               /\ (r.Went_Negative /\ r.Balance_Nominal = 0) <=> (pre < 0)
               /\ (pre >= 0) => (r.Balance_Nominal = pre /\ ~r.Went_Negative)

C2_Witness ==
    /\ Returned
    /\ \E i \in 1..Len(rows) : rows[i].Went_Negative /\ rows[i].Balance_Before > 0
    /\ \E i \in 1..Len(rows) : RowPreFloor(rows[i]) = 0 /\ RowOutflow(rows[i]) > 0

ZeroRatesNoEvents ==
    /\ params.yield_annual = 0 /\ params.fee_annual = 0
    /\ params.inflation_annual = 0
    /\ params.monthly_withdraw_post = 0
    /\ params.one_time_contribution = 0 /\ params.one_time_withdrawal = 0

\* C3 as stated: with zero rates, no post-phase withdrawal and no one-time
\* events the final balance is opening_balance + accumulation_periods *
\* contribution, whatever the income and the pre-phase withdrawal are.
C3_AsStated ==
    (pc = "done" /\ ZeroRatesNoEvents)
        => LastRow.Balance_Nominal
             = params.opening_balance + (AccMonths * params.monthly_contribution)

\* C3 amended: with zero rates, no post-phase withdrawal and no one-time
\* events, and a pre-phase withdrawal not above income + contribution, the
\* final balance is opening_balance + accumulation_periods *
\* (income + contribution - pre-phase withdrawal).
C3_FinalBalance ==
    (/\ pc = "done"
     /\ ZeroRatesNoEvents
     /\ params.monthly_withdraw_pre <= params.monthly_income + params.monthly_contribution)
        => LastRow.Balance_Nominal
             = params.opening_balance
               + (AccMonths * (params.monthly_income + params.monthly_contribution
                               - params.monthly_withdraw_pre))

C3_Witness ==
    /\ pc = "done"
    /\ ZeroRatesNoEvents
    /\ AccMonths = 12
    /\ params.opening_balance > 0
    /\ params.monthly_contribution > 0
    /\ params.monthly_income > 0
    /\ params.monthly_withdraw_pre > 0
    /\ LastRow.Balance_Nominal = params.opening_balance + (12 * params.monthly_contribution)

DepletionScenario ==
    /\ params.opening_balance = 0
    /\ params.monthly_contribution = 0
    /\ params.monthly_withdraw_pre = 100
    /\ AccMonths >= 12

NoLaterInflow == \A i \in 2..Len(rows) : RowInflow(rows[i]) = 0
LaterBalancesZero == \A i \in 2..Len(rows) : rows[i].Balance_Nominal = 0

\* C4 as stated: in the depletion scenario the depletion period is 1 and,
\* absent further inflows, every later reported balance is 0.
C4_AsStated ==
    (Scanned /\ DepletionScenario)
        => (failure_month = 1 /\ (NoLaterInflow => LaterBalancesZero))

\* C4 amended: in the depletion scenario with no inflow in period 1 either
\* (periodic income 0 and no one-time contribution applied in period 1) the
\* depletion period is 1 and, absent further inflows, every later reported
\* balance is 0.
C4_Depletion ==
    (/\ Scanned
     /\ DepletionScenario
     /\ params.monthly_income = 0
     /\ rows[1].OneTime_Contribution = 0)
        => (/\ failure_month = 1
            /\ rows[1].Balance_Nominal = 0
            /\ NoLaterInflow => LaterBalancesZero)

C4_Witness ==
    /\ pc = "done"
    /\ DepletionScenario
    /\ params.monthly_income = 0
    /\ params.one_time_contribution = 0
    /\ params.monthly_withdraw_post > 0
    /\ params.inflate_withdrawals_post
    /\ failure_month = 1
    /\ Len(rows) = 24
    /\ LaterBalancesZero

TargetOutOfRange ==
    \/ params.one_time_contribution_month \notin 1..TotalPeriods
    \/ params.one_time_withdrawal_month \notin 1..TotalPeriods

\* C5: with a one-time target period outside [1, total_periods] the
\* parameters are rejected before the simulation starts, so no period record
\* is ever produced.
C5_RejectedBeforeStart == TargetOutOfRange => (Len(rows) = 0 /\ pc = "loop")

\* C6: in the returned frame the one-time contribution field is the configured
\* amount in the record of its target period and 0 in every other record,
\* likewise the one-time withdrawal, and each enters the net cashflow of its
\* target period only.
C6_OneTimeEvents ==
    Returned =>
        \A i \in 1..Len(rows) :
            LET r == rows[i]
                c == IF i = params.one_time_contribution_month
                     THEN params.one_time_contribution ELSE 0
                w == IF i = params.one_time_withdrawal_month
                     THEN params.one_time_withdrawal ELSE 0
            IN /\ r.OneTime_Contribution = c
               /\ r.OneTime_Withdrawal = w
               /\ r.Net_Cashflow = (r.Income + r.Contribution + c) - (r.Withdrawal + w)

C6_Witness ==
    /\ pc = "done"
    /\ params.one_time_contribution > 0
    /\ params.one_time_withdrawal > 0
    /\ params.one_time_contribution_month = params.one_time_withdrawal_month
    /\ params.one_time_contribution_month \in 2..(TotalPeriods - 1)
    /\ rows[params.one_time_contribution_month].OneTime_Contribution > 0
    /\ rows[params.one_time_contribution_month + 1].OneTime_Contribution = 0

\* C7: the scan leaves the records unchanged, finds all total_periods records
\* produced, and reports the smallest period index that went negative, or
\* none (0) exactly when no record went negative.
C7_DepletionScan ==
    [][pc = "scan" =>
        /\ rows' = rows
        /\ Len(rows') = TotalPeriods
        /\ (WentNegativeMonths = {} <=> failure_month' = 0)
        /\ WentNegativeMonths # {} =>
             /\ failure_month' \in WentNegativeMonths
             /\ \A i \in WentNegativeMonths : failure_month' <= i]_vars

C7_Witness ==
    /\ pc = "done"
    /\ failure_month > 0
    /\ failure_month < Len(rows)
    /\ Cardinality(WentNegativeMonths) >= 2
    /\ LastRow.Balance_Nominal > 0

\* C8: in the returned frame a period is in the accumulation phase exactly
\* when its index is at most accumulation_periods; accumulation periods carry
\* the configured income, contribution and pre-phase withdrawal, distribution
\* periods carry income 0 and contribution 0.
C8_PhaseCashflows ==
    Returned =>
        \A i \in 1..Len(rows) :
            LET r == rows[i]
            IN /\ r.Phase \in {"Pre-retirement", "Retirement"}
               /\ (r.Phase = "Pre-retirement") <=> (r.Month <= AccMonths)
               /\ (r.Month <= AccMonths) =>
                    /\ r.Income = params.monthly_income
                    /\ r.Contribution = params.monthly_contribution
                    /\ r.Withdrawal = params.monthly_withdraw_pre
               /\ (r.Month > AccMonths) => (r.Income = 0 /\ r.Contribution = 0)

C8_Witness ==
    /\ pc = "done"
    /\ AccMonths = 0
    /\ params.monthly_income > 0
    /\ params.monthly_contribution > 0
    /\ Len(rows) = 12
    /\ rows[1].Phase = "Retirement"

\* C9: in the returned frame the monthly return compounds to the net annual
\* rate, the starting balance of period 1 is the opening balance, the starting
\* balance of every later period is the reported (floored) balance of the
\* period before, and the reported balance is the floor at 0 of starting
\* balance * (1 + effective monthly rate) + inflows - outflows.
C9_GrowthThenCashflow ==
    Returned =>
        /\ Pow(1 + r_m, 12) = 1 + (params.yield_annual - params.fee_annual)
        /\ \A i \in 1..Len(rows) :
                LET r == rows[i]
                    g == 1 + r.Return_Monthly
                    pre == (r.Balance_Before * g) + RowInflow(r) - RowOutflow(r)
                IN /\ r.Balance_Before
                        = (IF i = 1 THEN params.opening_balance ELSE rows[i - 1].Balance_Nominal)
                   /\ r.Return_Monthly = r_m
                   /\ r.Net_Cashflow = RowInflow(r) - RowOutflow(r)
                   /\ r.Balance_Nominal = (IF pre < 0 THEN 0 ELSE pre)

C9_Witness ==
    Returned /\ \E i \in 2..Len(rows) :
        /\ rows[i - 1].Went_Negative
        /\ rows[i].Balance_Before = 0
        /\ \E j \in 1..(i - 1) :
            /\ rows[j].Return_Monthly = 1
            /\ rows[j].Balance_Before > 0
            /\ rows[j].Net_Cashflow # 0
            /\ rows[j].Balance_Nominal > 0

\* C10: in the yearly table every year of the horizon has exactly one row,
\* whose flow totals are the sums over the twelve monthly records of that
\* year and whose ending balance is the reported balance of the year's last
\* month.
C10_YearlyTable ==
    (pc = "done" /\ show_yearly) =>
        /\ \A j \in 1..Len(yearly) : yearly[j].Year \in 1..(TotalPeriods \div 12)
        /\ \A y \in 1..(TotalPeriods \div 12) :
            LET R == {j \in 1..Len(yearly) : yearly[j].Year = y}
                lo == (12 * (y - 1)) + 1
                hi == 12 * y
            IN /\ Cardinality(R) = 1
               /\ \A j \in R :
                    /\ yearly[j].Income = SumRange(rows, lo, hi, "Income")
                    /\ yearly[j].Contribution = SumRange(rows, lo, hi, "Contribution")
                    /\ yearly[j].Withdrawal = SumRange(rows, lo, hi, "Withdrawal")
                    /\ yearly[j].OneTime_Contribution
                         = SumRange(rows, lo, hi, "OneTime_Contribution")
                    /\ yearly[j].OneTime_Withdrawal
                         = SumRange(rows, lo, hi, "OneTime_Withdrawal")
                    /\ yearly[j].Ending_Balance_Nominal = rows[hi].Balance_Nominal

C10_Witness ==
    /\ pc = "done"
    /\ show_yearly
    /\ Len(yearly) = 2
    /\ yearly[1].Phase = "Pre-retirement"
    /\ yearly[2].Phase = "Retirement"
    /\ yearly[1].Income > 0
    /\ yearly[2].Withdrawal > 0
    /\ yearly[2].OneTime_Contribution > 0
    /\ yearly[2].Ending_Balance_Nominal > 0

====
